---- MODULE Spec2Model ----
(***************************************************************************)
(* squealogd: the syslog/klog ingestion daemon of src/bin/squealogd.rs     *)
(* (FreeBSD build, i.e. with the cfg(target_os = "freebsd") items).        *)
(*                                                                         *)
(* Text is a sequence of Unicode code points, a byte buffer a sequence of  *)
(* numbers 0..255, Option<T> is <<>> (None) or <<x>> (Some(x)), and a      *)
(* number that may exceed the checker's integers (an i64 offset, a time in *)
(* seconds) is a decimal numeral: its digits, most significant first,      *)
(* without leading zeros.                                                  *)
(***************************************************************************)
EXTENDS Integers, Sequences, FiniteSets, TLC

---------------------------------------------------------------------------
(* Characters the grammar and the standard library single out.             *)

LT == 60
GT == 62
LBRACKET == 91
RBRACKET == 93
CH_0 == 48
CH_9 == 57
LF == 10
CR == 13
SPACE == 32

None == <<>>
Some(x) == <<x>>

\* char::is_whitespace: the Unicode White_Space property.
IsWhitespace(c) ==
    \/ c \in 9..13
    \/ c = SPACE
    \/ c \in {133, 160, 5760, 8232, 8233, 8239, 8287, 12288}
    \/ c \in 8192..8202

IsDigit(c) == c \in CH_0..CH_9

\* F applied to the value of x, with x worked out once however often F's body
\* names its argument.
Once(x, F(_)) == CHOOSE r \in { F(v) : v \in {x} } : TRUE

Drop(s, n) == SubSeq(s, (IF n < Len(s) THEN n ELSE Len(s)) + 1, Len(s))
Take(s, n) == SubSeq(s, 1, IF n < Len(s) THEN n ELSE Len(s))

---------------------------------------------------------------------------
(* Decimal numerals.                                                       *)

RECURSIVE StripZeros(_)
StripZeros(ds) ==
    IF Len(ds) > 1 /\ ds[1] = 0 THEN StripZeros(Tail(ds)) ELSE ds

\* a <= b for numerals without leading zeros.
RECURSIVE LexLE(_, _)
LexLE(a, b) ==
    IF a = <<>> THEN TRUE
    ELSE IF a[1] # b[1] THEN a[1] < b[1]
    ELSE LexLE(Tail(a), Tail(b))

BigLE(a, b) ==
    \/ Len(a) < Len(b)
    \/ Len(a) = Len(b) /\ LexLE(a, b)

\* Schoolbook addition on the reversed digits, with a carry.
RECURSIVE AddRev(_, _, _)
AddRev(a, b, carry) ==
    IF a = <<>> /\ b = <<>> THEN (IF carry = 0 THEN <<>> ELSE <<carry>>)
    ELSE LET x == IF a = <<>> THEN 0 ELSE a[1]
             y == IF b = <<>> THEN 0 ELSE b[1]
             t == x + y + carry
         IN  <<t % 10>> \o AddRev(IF a = <<>> THEN a ELSE Tail(a),
                                  IF b = <<>> THEN b ELSE Tail(b),
                                  t \div 10)

Reverse(s) == [i \in 1..Len(s) |-> s[Len(s) + 1 - i]]

BigAdd(a, b) == StripZeros(Reverse(AddRev(Reverse(a), Reverse(b), 0)))

\* The value of a numeral that is known to be small.
RECURSIVE SmallValue(_)
SmallValue(ds) ==
    IF ds = <<>> THEN 0 ELSE SmallValue(Take(ds, Len(ds) - 1)) * 10 + ds[Len(ds)]

\* i64::MAX, the largest chrono::Duration in seconds (i64::MAX milliseconds)
\* and the last second chrono's DateTime can hold (262143-12-31T23:59:59Z).
I64Max == <<9,2,2,3,3,7,2,0,3,6,8,5,4,7,7,5,8,0,7>>
DurationMaxSecs == <<9,2,2,3,3,7,2,0,3,6,8,5,4,7,7,5>>
DateTimeMaxSecs == <<8,2,1,0,2,9,8,4,1,2,7,9,9>>
U8Max == 255

---------------------------------------------------------------------------
(* std::str::from_utf8: the code points of a well-formed UTF-8 buffer, or  *)
(* an error.                                                               *)

IsCont(b) == b \in 128..191

\* The length of the sequence a first byte announces, 0 when it is none.
Utf8Width(b1) ==
    IF b1 < 128 THEN 1
    ELSE IF b1 \in 194..223 THEN 2
    ELSE IF b1 \in 224..239 THEN 3
    ELSE IF b1 \in 240..244 THEN 4
    ELSE 0

\* Whether b2 may follow the first byte b1 (no overlong form, no surrogate,
\* nothing above U+10FFFF).
Utf8SecondOk(b1, b2) ==
    CASE b1 = 224 -> b2 \in 160..191
      [] b1 = 237 -> b2 \in 128..159
      [] b1 = 240 -> b2 \in 144..191
      [] b1 = 244 -> b2 \in 128..143
      [] OTHER -> IsCont(b2)

Utf8CodePoint(bytes, n) ==
    CASE n = 1 -> bytes[1]
      [] n = 2 -> (bytes[1] % 32) * 64 + (bytes[2] % 64)
      [] n = 3 -> (bytes[1] % 16) * 4096 + (bytes[2] % 64) * 64 + (bytes[3] % 64)
      [] n = 4 -> (bytes[1] % 8) * 262144 + (bytes[2] % 64) * 4096
                  + (bytes[3] % 64) * 64 + (bytes[4] % 64)

\* The sequence that starts at place p is whole and well formed.
Utf8SeqOk(bytes, p) ==
    /\ Utf8Width(bytes[p]) # 0
    /\ p + Utf8Width(bytes[p]) - 1 <= Len(bytes)
    /\ Utf8Width(bytes[p]) > 1
         => /\ Utf8SecondOk(bytes[p], bytes[p + 1])
            /\ \A i \in (p + 2)..(p + Utf8Width(bytes[p]) - 1) : IsCont(bytes[i])

\* The continuation byte at place p belongs to the sequence of the first
\* byte before it.
Utf8Covered(bytes, p) ==
    \E q \in 1..(p - 1) :
       /\ p - q <= 3
       /\ ~IsCont(bytes[q])
       /\ \A r \in (q + 1)..p : IsCont(bytes[r])
       /\ Utf8Width(bytes[q]) >= p - q + 1

Utf8Valid(bytes) ==
    \A p \in 1..Len(bytes) :
       IF IsCont(bytes[p]) THEN Utf8Covered(bytes, p) ELSE Utf8SeqOk(bytes, p)

\* The places of the first bytes, in order.
Utf8Leads(bytes) ==
    SelectSeq([p \in 1..Len(bytes) |-> p], LAMBDA p : ~IsCont(bytes[p]))

Utf8Text(bytes, leads) ==
    [j \in 1..Len(leads) |->
        Utf8CodePoint(SubSeq(bytes, leads[j],
                             leads[j] + Utf8Width(bytes[leads[j]]) - 1),
                      Utf8Width(bytes[leads[j]]))]

Utf8Decode(bytes) ==
    IF Utf8Valid(bytes)
    THEN [ok |-> TRUE, s |-> Utf8Text(bytes, Utf8Leads(bytes))]
    ELSE [ok |-> FALSE, s |-> <<>>]

\* str::trim: without the leading and the trailing whitespace.
RECURSIVE TrimStart(_)
TrimStart(s) ==
    IF s # <<>> /\ IsWhitespace(s[1]) THEN TrimStart(Tail(s)) ELSE s

RECURSIVE TrimEnd(_)
TrimEnd(s) ==
    IF s # <<>> /\ IsWhitespace(s[Len(s)]) THEN TrimEnd(Take(s, Len(s) - 1)) ELSE s

Trim(s) == TrimEnd(TrimStart(s))

\* str::lines: the pieces between line feeds, each without its "\n" or
\* "\r\n"; a final piece is a line only when it is not empty.
RECURSIVE LineEnd(_, _)
LineEnd(s, i) ==
    IF i > Len(s) THEN 0 ELSE IF s[i] = LF THEN i ELSE LineEnd(s, i + 1)

StripCR(raw) ==
    IF raw # <<>> /\ raw[Len(raw)] = CR THEN Take(raw, Len(raw) - 1) ELSE raw

RECURSIVE Lines(_)
LinesCut(s, e) ==
    IF e = 0 THEN <<s>>
    ELSE <<StripCR(Take(s, e - 1))>> \o Lines(Drop(s, e))

Lines(s) == IF s = <<>> THEN <<>> ELSE LinesCut(s, LineEnd(s, 1))

---------------------------------------------------------------------------
(* The nom combinators of parse_klog_line. A parser result is              *)
(* [ok, rest, val]: Ok((rest, val)) or Err(Error).                         *)

PErr == [ok |-> FALSE, rest |-> <<>>, val |-> <<>>]
POk(rest, val) == [ok |-> TRUE, rest |-> rest, val |-> val]

RECURSIVE DigitPrefixLen(_)
DigitPrefixLen(s) ==
    IF s # <<>> /\ IsDigit(s[1]) THEN 1 + DigitPrefixLen(Tail(s)) ELSE 0

\* digit1: one or more ASCII digits; val is their numeral, leading zeros kept.
digit1Split(input, n) ==
    IF n = 0 THEN PErr
    ELSE POk(Drop(input, n), [i \in 1..n |-> input[i] - CH_0])

digit1(input) == digit1Split(input, DigitPrefixLen(input))

\* <u8 as FromStr>::from_str on a string of digits.
U8Of(v) ==
    IF Len(v) <= 3 /\ SmallValue(v) <= U8Max THEN Some(SmallValue(v)) ELSE None

FromStrU8(ds) == U8Of(StripZeros(ds))

\* <i64 as FromStr>::from_str on a string of digits.
I64Of(v) == IF BigLE(v, I64Max) THEN Some(v) ELSE None

FromStrI64(ds) == I64Of(StripZeros(ds))

\* map_res(p, f): d is p's result and v is f applied to its value.
map_res(d, v) ==
    IF ~d.ok \/ v = None THEN PErr ELSE POk(d.rest, v[1])

\* digits::<u8>: map_res(digit1, FromStr::from_str).
digitsU8Of(d) == map_res(d, IF d.ok THEN FromStrU8(d.val) ELSE None)

digitsU8(input) == Once(digit1(input), digitsU8Of)

\* digits::<i64>.
digitsI64Of(d) == map_res(d, IF d.ok THEN FromStrI64(d.val) ELSE None)

digitsI64(input) == Once(digit1(input), digitsI64Of)

\* tag(c) for a one-character tag.
tag(c, input) ==
    IF input # <<>> /\ input[1] = c THEN POk(Tail(input), <<c>>) ELSE PErr

\* The closing tag of delimited(_, mid, tag(c)): m is mid's result.
terminated(m, c) ==
    IF m.ok /\ tag(c, m.rest).ok THEN POk(Tail(m.rest), m.val) ELSE PErr

\* syslog_loose::decompose_pri: facility = pri >> 3 when that is one of the
\* 24 facilities, severity = pri & 7.
MaxFacility == 23

\* Mutant: the facility is taken one bit too high.
decompose_pri_Shift4(pri) ==
    << IF pri \div 16 <= MaxFacility THEN Some(pri \div 16) ELSE None,
       Some(pri % 8) >>

decompose_pri(pri) ==
    << IF pri \div 8 <= MaxFacility THEN Some(pri \div 8) ELSE None,
       Some(pri % 8) >>

\* delimited(tag("<"), map(digits, decompose_pri), tag(">"))
priDelimited(input) ==
    IF tag(LT, input).ok
    THEN Once(digitsU8(Tail(input)), LAMBDA m : terminated(m, GT))
    ELSE PErr

\* map(opt(..), |pri| pri.unwrap_or((None, None))): d is the result of the
\* delimited parser.
priOpt(input, d) ==
    IF d.ok THEN POk(d.rest, decompose_pri(d.val)) ELSE POk(input, <<None, None>>)

priParser(input) == Once(priDelimited(input), LAMBDA d : priOpt(input, d))

\* delimited(tag("["), digits, tag("]"))
offsetDelimited(input) ==
    IF tag(LBRACKET, input).ok THEN terminated(digitsI64(Tail(input)), RBRACKET)
    ELSE PErr

\* opt(..)
offsetOpt(input, d) ==
    IF d.ok THEN POk(d.rest, Some(d.val)) ELSE POk(input, None)

offsetParser(input) == offsetOpt(input, offsetDelimited(input))

\* tuple((pri, offset, rest)): p and o are the results of the first two.
klogTupleOf(p, o) ==
    IF p.ok /\ o.ok
    THEN POk(<<>>, [pri |-> p.val, ts |-> o.val, rest |-> o.rest])
    ELSE PErr

klogTupleAfter(p) == klogTupleOf(p, IF p.ok THEN offsetParser(p.rest) ELSE PErr)

klogTuple(input) == klogTupleAfter(priParser(input))

\* *boottime + chrono::Duration::seconds(n): both panic out of range.
AddSecondsPanics(boottime, n) ==
    \/ ~BigLE(n, DurationMaxSecs)
    \/ ~BigLE(BigAdd(boottime, n), DateTimeMaxSecs)

Message(protocol, facility, severity, timestamp, appname, procid, msg) ==
    [ panic |-> FALSE, protocol |-> protocol, facility |-> facility,
      severity |-> severity, timestamp |-> timestamp, hostname |-> None,
      appname |-> appname, procid |-> procid, msgid |-> None,
      structured_data |-> <<>>, msg |-> msg ]

Panic == [panic |-> TRUE]

\* Mutant: the rest is taken as it is, not trimmed.
klogMessage_Untrimmed(input, bt, r) ==
    IF r.ok
    THEN IF r.val.ts # None /\ AddSecondsPanics(bt, r.val.ts[1])
         THEN Panic
         ELSE Message("RFC5424", r.val.pri[1], r.val.pri[2],
                      IF r.val.ts = None THEN None
                      ELSE Some(BigAdd(bt, r.val.ts[1])),
                      None, None, r.val.rest)
    ELSE Message("RFC3164", None, None, None, None, None, input)

\* The two closures applied to the parser's result r: .map(..).unwrap_or(..)
klogMessage(input, boottime, r) ==
    IF r.ok
    THEN IF r.val.ts # None /\ AddSecondsPanics(boottime, r.val.ts[1])
         THEN Panic
         ELSE Message("RFC5424", r.val.pri[1], r.val.pri[2],
                      IF r.val.ts = None THEN None
                      ELSE Some(BigAdd(boottime, r.val.ts[1])),
                      None, None, Trim(r.val.rest))
    ELSE Message("RFC3164", None, None, None, None, None, input)

parse_klog_line(input, boottime) == klogMessage(input, boottime, klogTuple(input))

---------------------------------------------------------------------------
(* The process: main().                                                    *)

VARIABLES
    pc,         \* where main is: "boot", "acquire", "klogopen", "register",
                \* "wait" (blocked in poller.wait), "dispatch" (in the for
                \* loop over events), "done" (returned an error or panicked)
    names,      \* LISTEN_FDNAMES split at ':' (None when the variable is unset)
    fds,        \* what the activator passed in each handle slot
    boottime,   \* systemstat.boot_time(), seconds
    sources,    \* the vector of LogSource
    registered, \* keys added to the poller
    armed,      \* keys whose one-shot interest is armed
    events,     \* the events of the last wait() not yet handled, in order
    queue,      \* per handle slot: the datagrams queued in the kernel
    klogbuf,    \* the unread bytes of /dev/klog
    store,      \* the rows of table log, in insertion order
    err,        \* why the process ended ("" while it runs)
    narrived,   \* how many datagrams and klog chunks have arrived
    ready,      \* history: the keys the last wait() returned
    drained,    \* history: the keys read since the last wait() returned
    readLog,    \* history: every buffer read, [key, buf], in read order
    ingestLog,  \* history: every successful ingest, [key, rec, msg]
    line,       \* the input of a parse_klog_line call under study
    parsed      \* its result (None before the call)

vars == << pc, names, fds, boottime, sources, registered, armed, events, queue,
           klogbuf, store, err, narrived, ready, drained, readLog, ingestLog,
           line, parsed >>

loopVars == << pc, names, fds, sources, registered, armed, events, queue,
               klogbuf, store, err, narrived, ready, drained, readLog,
               ingestLog >>

\* let mut buf = vec![0u8; 8192]
BufSize == 8192

\* polling::Event::readable(usize::MAX - 1): the key of the klog source,
\* written as the two's complement reading of that usize.
KlogKey == -2

MaxArrivals == 3

\* Text written out as code points.
TxtA == <<97>>                                  \* "a"
TxtB == <<98>>                                  \* "b"
TxtApp == <<97, 112, 112>>                      \* "app"

\* The datagrams a producer sends: "<13>a", "b", and one that is not UTF-8.
Datagrams == { <<60, 49, 51, 62, 97>>, <<98>>, <<255>> }

\* What the kernel appends to its log at once: "x\n<6>[7] y\n" (two lines),
\* "[9999999999999]" (a line not yet complete, with an offset that no boot
\* time can take), and bytes that are not UTF-8.
KlogChunks == { <<120, 10, 60, 54, 62, 91, 55, 93, 32, 121, 10>>,
                <<91, 57, 57, 57, 57, 57, 57, 57, 57, 57, 57, 57, 57, 57, 93>>,
                <<255, 10>> }

\* The environments main is started in: the names, per slot a Unix datagram
\* socket, a UDP socket, a handle of another kind, or none, and the boot time.
Environments ==
    { [names |-> Some(<<TxtA, TxtB>>), fds |-> <<"unix", "udp">>,
       boottime |-> <<1, 7, 0, 0, 0, 0, 0, 0, 0, 0>>],
      [names |-> Some(<<TxtA>>), fds |-> <<"udp">>, boottime |-> <<1, 0, 0, 0>>],
      [names |-> Some(<<TxtA, TxtB>>), fds |-> <<"udp", "none">>,
       boottime |-> <<1, 0, 0, 0>>],
      [names |-> Some(<<TxtA, TxtB>>), fds |-> <<"unix", "other">>,
       boottime |-> <<1, 0, 0, 0>>],
      [names |-> None, fds |-> <<"unix">>, boottime |-> <<1, 0, 0, 0>>] }

Slots == 1..Len(fds)
IsSocket(i) == fds[i] \in {"unix", "udp"}

Init ==
    /\ pc = "boot"
    /\ \E e \in Environments :
          names = e.names /\ fds = e.fds /\ boottime = e.boottime
    /\ sources = <<>>
    /\ registered = {}
    /\ armed = {}
    /\ events = <<>>
    /\ queue = [i \in Slots |-> <<>>]
    /\ klogbuf = <<>>
    /\ store = <<>>
    /\ err = ""
    /\ narrived = 0
    /\ ready = {}
    /\ drained = {}
    /\ readLog = <<>>
    /\ ingestLog = <<>>
    /\ line = <<>>
    /\ parsed = None

\* Mutant: the error is noted and the process goes on.
Abort_Swallowed(e) == pc' = pc /\ err' = e

\* The process ends: `?` returns the error from main, a panic aborts.
Abort(e) == pc' = "done" /\ err' = e

---------------------------------------------------------------------------
(* The environment.                                                        *)

\* A producer sends a datagram to a socket: before the process starts or
\* while the loop runs (an arrival during startup is one before it).
Arrive ==
    /\ pc \in {"boot", "wait", "dispatch"}
    /\ narrived < MaxArrivals
    /\ \E i \in Slots : \E d \in Datagrams :
          /\ IsSocket(i)
          /\ queue' = [queue EXCEPT ![i] = Append(@, d)]
    /\ narrived' = narrived + 1
    /\ UNCHANGED << pc, names, fds, boottime, sources, registered, armed, events,
                    klogbuf, store, err, ready, drained, readLog, ingestLog,
                    line, parsed >>

\* The kernel logs.
KlogArrive ==
    /\ pc \in {"boot", "wait", "dispatch"}
    /\ narrived < MaxArrivals
    /\ \E c \in KlogChunks : klogbuf' = klogbuf \o c
    /\ narrived' = narrived + 1
    /\ UNCHANGED << pc, names, fds, boottime, sources, registered, armed, events,
                    queue, store, err, ready, drained, readLog, ingestLog,
                    line, parsed >>

\* A queued datagram is taken by another holder of the inherited socket
\* after wait() has returned (taken earlier, it is one that never arrived).
Discard ==
    /\ pc = "dispatch"
    /\ \E i \in Slots :
          /\ queue[i] # <<>>
          /\ queue' = [queue EXCEPT ![i] = Tail(@)]
    /\ UNCHANGED << pc, names, fds, boottime, sources, registered, armed, events,
                    klogbuf, store, err, narrived, ready, drained, readLog,
                    ingestLog, line, parsed >>

---------------------------------------------------------------------------
(* Startup.                                                                *)

\* Mutant: every source gets the key 0.
LogSource_SameKey(xport, key, sockname) ==
    [xport |-> xport, key |-> 0, sockname |-> sockname]

LogSource(xport, key, sockname) ==
    [xport |-> xport, key |-> key, sockname |-> sockname]

\* boot_time()?, Connection::open(..)?, the pragmas and the migration: any of
\* them may fail.
Boot ==
    /\ pc = "boot"
    /\ \E ok \in BOOLEAN :
          IF ok THEN pc' = "acquire" /\ err' = err ELSE Abort("Startup")
    /\ UNCHANGED << names, fds, boottime, sources, registered, armed, events,
                    queue, klogbuf, store, narrived, ready, drained, readLog,
                    ingestLog, line, parsed >>

\* Mutant: a slot that cannot be acquired ends the loop over the names, and
\* startup goes on with the sources acquired so far.
Acquire_Partial ==
    /\ pc = "acquire"
    /\ LET i == Len(sources) + 1
       IN  IF names = None THEN Abort("Env") /\ sources' = sources
           ELSE IF i > Len(names[1]) \/ i > Len(fds) \/ ~IsSocket(i) THEN
                /\ pc' = "klogopen" /\ err' = err /\ sources' = sources
           ELSE /\ sources' = Append(sources,
                       LogSource(IF fds[i] = "unix" THEN "UnixDgram" ELSE "Udp",
                                 i - 1, names[1][i]))
                /\ pc' = pc /\ err' = err
    /\ UNCHANGED << names, fds, boottime, registered, armed, events, queue,
                    klogbuf, store, narrived, ready, drained, readLog,
                    ingestLog, line, parsed >>

\* One turn of `for (i, n) in LISTEN_FDNAMES?.split(':').enumerate()`, or
\* the end of that loop.
Acquire ==
    /\ pc = "acquire"
    /\ LET i == Len(sources) + 1
       IN  IF names = None THEN Abort("Env") /\ sources' = sources
           ELSE IF i > Len(names[1]) THEN
                /\ pc' = "klogopen" /\ err' = err /\ sources' = sources
           ELSE IF i > Len(fds) \/ fds[i] = "none" THEN
                \* take_unix_datagram gave Ok(None): "Socket used twice"
                Abort("Handle") /\ sources' = sources
           ELSE IF fds[i] = "other" THEN
                \* neither take_unix_datagram nor take_udp_socket accepts it
                Abort("Handle") /\ sources' = sources
           ELSE \E nonblocking \in BOOLEAN :
                  IF nonblocking
                  THEN /\ sources' = Append(sources,
                              LogSource(IF fds[i] = "unix" THEN "UnixDgram" ELSE "Udp",
                                        i - 1, names[1][i]))
                       /\ pc' = pc /\ err' = err
                  ELSE Abort("HandleMode") /\ sources' = sources
    /\ UNCHANGED << names, fds, boottime, registered, armed, events, queue,
                    klogbuf, store, narrived, ready, drained, readLog,
                    ingestLog, line, parsed >>

\* sources.push(LogSource { xport: Klog(open("/dev/klog").unwrap()), .. })
OpenKlog ==
    /\ pc = "klogopen"
    /\ \E ok \in BOOLEAN :
          IF ok
          THEN /\ sources' = Append(sources, LogSource("Klog", KlogKey, "klog"))
               /\ pc' = "register" /\ err' = err
          ELSE Abort("Panic") /\ sources' = sources
    /\ UNCHANGED << names, fds, boottime, registered, armed, events, queue,
                    klogbuf, store, narrived, ready, drained, readLog,
                    ingestLog, line, parsed >>

\* Poller::new()? and one turn of `for source in &sources { poller.add(..)? }`,
\* or the end of that loop.
Register ==
    /\ pc = "register"
    /\ LET i == Cardinality(registered) + 1
       IN  IF i > Len(sources)
           THEN pc' = "wait" /\ err' = err /\ UNCHANGED << registered, armed >>
           ELSE \E ok \in BOOLEAN :
                  IF ok
                  THEN /\ registered' = registered \cup {sources[i].key}
                       /\ armed' = armed \cup {sources[i].key}
                       /\ pc' = pc /\ err' = err
                  ELSE Abort("Poller") /\ UNCHANGED << registered, armed >>
    /\ UNCHANGED << names, fds, boottime, sources, events, queue, klogbuf, store,
                    narrived, ready, drained, readLog, ingestLog, line, parsed >>

---------------------------------------------------------------------------
(* The dispatch loop.                                                      *)

\* Whether a read of the handle behind `key` would return data.
Readable(key) ==
    IF key = KlogKey THEN klogbuf # <<>> ELSE queue[key + 1] # <<>>

\* The orders in which the poller may list a set of keys.
Orders(S) ==
    { o \in [1..Cardinality(S) -> S] : \A k \in S : \E i \in DOMAIN o : o[i] = k }

\* Mutant: every armed source is reported, readable or not.
Wait_AllArmed ==
    /\ pc = "wait"
    /\ armed # {}
    /\ events' \in Orders(armed)
    /\ armed' = {}
    /\ ready' = armed
    /\ drained' = {}
    /\ pc' = "dispatch" /\ err' = err
    /\ UNCHANGED << names, fds, boottime, sources, registered, queue, klogbuf,
                    store, narrived, readLog, ingestLog, line, parsed >>

\* events.clear(); poller.wait(&mut events, None)?
Wait ==
    /\ pc = "wait"
    /\ \E ok \in BOOLEAN :
          IF ok
          THEN LET fired == { k \in armed : Readable(k) }
               IN  /\ fired # {}
                   /\ events' \in Orders(fired)
                   /\ armed' = armed \ fired
                   /\ ready' = fired
                   /\ drained' = {}
                   /\ pc' = "dispatch" /\ err' = err
          ELSE Abort("Poller") /\ UNCHANGED << events, armed, ready, drained >>
    /\ UNCHANGED << names, fds, boottime, sources, registered, queue, klogbuf,
                    store, narrived, readLog, ingestLog, line, parsed >>

\* sources.iter_mut().find(|source| source.event.key == ev.key): the index
\* of the first source with that key, 0 when there is none.
RECURSIVE FindFrom(_, _, _)
FindFrom(srcs, key, i) ==
    IF i > Len(srcs) THEN 0
    ELSE IF srcs[i].key = key THEN i
    ELSE FindFrom(srcs, key, i + 1)

find(srcs, key) == FindFrom(srcs, key, 1)

ProcIdPID(i) == [tag |-> "PID", pid |-> i, name |-> <<>>]
ProcIdName(n) == [tag |-> "Name", pid |-> 0, name |-> n]

\* syslog_loose::parse_message: never fails. Without a <pri> the whole input
\* is the message and no other field is set; with one, the header fields it
\* finds depend on the text after it, and two outcomes stand for them here:
\* a header with a numeric process id, and one with a process name.
parse_messageOf(input, p) ==
    IF p.rest = input
    THEN { Message("RFC3164", None, None, None, None, None, input) }
    ELSE { Message("RFC3164", p.val[1], p.val[2], h[1], h[2], h[3], p.rest) :
             h \in { <<Some(<<1, 2, 3>>), Some(TxtApp), Some(ProcIdPID(7))>>,
                     <<None, Some(TxtApp), Some(ProcIdName(TxtB))>> } }

parse_message(input) == Once(priParser(input), LAMBDA p : parse_messageOf(input, p))

\* Mutant: a process id that is a name is stored as 0.
named_params_AnyPid(socket, msg) ==
    [ facility |-> msg.facility,
      severity |-> msg.severity,
      socket |-> socket,
      appname |-> msg.appname,
      pid |-> IF msg.procid # None THEN Some(msg.procid[1].pid) ELSE None,
      time |-> msg.timestamp,
      msg |-> msg.msg ]

\* The named parameters of the INSERT.
named_params(socket, msg) ==
    [ facility |-> msg.facility,
      severity |-> msg.severity,
      socket |-> socket,
      appname |-> msg.appname,
      pid |-> IF msg.procid # None /\ msg.procid[1].tag = "PID"
              THEN Some(msg.procid[1].pid) ELSE None,
      time |-> msg.timestamp,
      msg |-> msg.msg ]

\* Mutant: the INSERT reports success and adds no row.
ingest_Lost(st, socket, msg) == st

\* The closure `ingest`, when it succeeds: one INSERT INTO log.
ingest(st, socket, msg) == Append(st, named_params(socket, msg))

\* Mutant: the source is not armed again.
Rearm_Omitted(key) == armed' = armed

\* poller.modify(s, source.event): the one-shot interest is armed again.
Rearm(key) == armed' = armed \cup {key}

\* A read of the handle behind `key` enters the history: Some(buf), or None
\* for Err(WouldBlock).
LogRead(key, res) == readLog' = Append(readLog, [key |-> key, res |-> res])

\* Mutant: the for loop ends after its first event.
NextEvent_Break ==
    /\ events' = <<>>
    /\ pc' = "wait"
    /\ err' = err

\* The position in `events` after the current event: back to wait() when it
\* was the last.
NextEvent ==
    /\ events' = Tail(events)
    /\ pc' = IF Tail(events) = <<>> THEN "wait" ELSE "dispatch"
    /\ err' = err

\* The arm of a Udp or UnixDgram source: recv, from_utf8, parse_message,
\* ingest, poller.modify.
HandleSocket ==
    /\ pc = "dispatch"
    /\ LET key == events[1]
           i == find(sources, key)
       IN  /\ i # 0
           /\ sources[i].xport \in {"Udp", "UnixDgram"}
           /\ drained' = drained \cup {key}
           /\ IF queue[key + 1] = <<>>
              THEN \* recv gives Err(WouldBlock), and unwrap() panics on it
                   /\ LogRead(key, None)
                   /\ Abort("Panic")
                   /\ UNCHANGED << queue, store, ingestLog, armed, events >>
              ELSE \E buf \in {Take(Head(queue[key + 1]), BufSize)} :
                   \E text \in {Utf8Decode(buf)} :
                       /\ queue' = [queue EXCEPT ![key + 1] = Tail(@)]
                       /\ LogRead(key, Some(buf))
                       /\ IF ~text.ok
                          THEN /\ Abort("Utf8")
                               /\ UNCHANGED << store, ingestLog, armed, events >>
                          ELSE \E m \in parse_message(text.s) :
                               \E out \in {"ok", "ingest", "modify"} :
                                 /\ store' = IF out = "ingest" THEN store
                                             ELSE ingest(store, sources[i].sockname, m)
                                 /\ ingestLog' =
                                       IF out = "ingest" THEN ingestLog
                                       ELSE Append(ingestLog,
                                                [key |-> key, rec |-> text.s, msg |-> m])
                                 /\ IF out = "ok"
                                    THEN Rearm(key) /\ NextEvent
                                    ELSE /\ Abort(IF out = "ingest" THEN "Persistence"
                                                  ELSE "Poller")
                                         /\ UNCHANGED << armed, events >>
    /\ UNCHANGED << names, fds, boottime, sources, registered, klogbuf, narrived,
                    ready, line, parsed >>

\* Mutant: the lines of a buffer are ingested last to first.
RECURSIVE IngestFirst_Reversed(_, _, _, _)
IngestFirst_Reversed(st, socket, msgs, n) ==
    IF n = 0 THEN st
    ELSE Append(IngestFirst_Reversed(st, socket, Tail(msgs), n - 1),
                named_params(socket, msgs[1]))

\* ingest(..)? for the first n of msgs, in order.
RECURSIVE IngestFirst(_, _, _, _)
IngestFirst(st, socket, msgs, n) ==
    IF n = 0 THEN st
    ELSE ingest(IngestFirst(st, socket, msgs, n - 1), socket, msgs[n])

\* How many of msgs, from the first on, were built without a panic.
RECURSIVE Built(_, _)
Built(msgs, n) ==
    IF n < Len(msgs) /\ ~msgs[n + 1].panic THEN Built(msgs, n + 1) ELSE n

ParseLines(lines, bt) == [j \in 1..Len(lines) |-> parse_klog_line(lines[j], bt)]

\* The Ok(len) arm of the read: from_utf8(..)?, then for each line
\* parse_klog_line and ingest(..)?. The first n lines are ingested; the
\* arm ends there on an error, or after the last line.
KlogLines(key, socket, text, lines, msgs, built) ==
    \E n \in 0..built :
       /\ store' = IngestFirst(store, socket, msgs, n)
       /\ ingestLog' = ingestLog \o
             [j \in 1..n |-> [key |-> key, rec |-> lines[j], msg |-> msgs[j]]]
       /\ IF ~text.ok THEN Abort("Utf8")
          ELSE IF n = Len(lines) THEN pc' = pc /\ err' = err
          ELSE IF n < built THEN Abort("Persistence")
          ELSE Abort("Panic")

KlogText(key, socket, text, lines) ==
    KlogLines(key, socket, text, lines, ParseLines(lines, boottime),
              Built(ParseLines(lines, boottime), 0))

\* Err(e) if e.kind() == WouldBlock => break, and then poller.modify.
KlogWouldBlock(key) ==
    /\ LogRead(key, None)
    /\ \E ok \in BOOLEAN :
          IF ok THEN Rearm(key) /\ NextEvent
          ELSE Abort("Poller") /\ UNCHANGED << armed, events >>

\* One turn of the `loop` in the arm of the Klog source: a read, and then
\* the panic on an error of the read, or the break on WouldBlock and
\* poller.modify, or the lines of the buffer parsed and ingested. A read of
\* a device that is not empty returns its bytes, or no byte at all when
\* another reader of the device has taken them in between.
HandleKlog ==
    /\ pc = "dispatch"
    /\ LET key == events[1]
           i == find(sources, key)
       IN  /\ i # 0
           /\ sources[i].xport = "Klog"
           /\ \/ /\ Abort("Read")
                 /\ UNCHANGED << readLog, klogbuf, store, ingestLog, armed,
                                 events >>
              \/ /\ klogbuf = <<>>
                 /\ KlogWouldBlock(key)
                 /\ UNCHANGED << klogbuf, store, ingestLog >>
              \/ /\ klogbuf # <<>>
                 /\ klogbuf' = <<>>
                 /\ LogRead(key, Some(<<>>))
                 /\ pc' = pc /\ err' = err
                 /\ UNCHANGED << store, ingestLog, armed, events >>
              \/ /\ klogbuf # <<>>
                 /\ klogbuf' = Drop(klogbuf, BufSize)
                 /\ LogRead(key, Some(Take(klogbuf, BufSize)))
                 /\ UNCHANGED << armed, events >>
                 /\ KlogText(key, sources[i].sockname,
                             Utf8Decode(Take(klogbuf, BufSize)),
                             IF Utf8Decode(Take(klogbuf, BufSize)).ok
                             THEN Lines(Utf8Decode(Take(klogbuf, BufSize)).s)
                             ELSE <<>>)
           /\ drained' = drained \cup {key}
    /\ UNCHANGED << names, fds, boottime, sources, registered, queue, narrived,
                    ready, line, parsed >>

---------------------------------------------------------------------------
(* parse_klog_line on its own: every line made of a <pri> part, an         *)
(* [offset] part and a rest, each well formed or not.                      *)

MaxPriInput == 260

\* The decimal numeral of a number below 1000, as digits and as text.
Numeral(v) ==
    IF v < 10 THEN <<v>>
    ELSE IF v < 100 THEN <<v \div 10, v % 10>>
    ELSE <<v \div 100, (v \div 10) % 10, v % 10>>

Text(ds) == [i \in 1..Len(ds) |-> ds[i] + CH_0]

Bracketed(open, body, close) == <<open>> \o body \o <<close>>

\* "", "<0>" .. "<260>", "<", "<11", "<>", "<a>", "<007>", "< 1>", "<1 >"
PriParts ==
    { <<>>, <<60>>, <<60, 49, 49>>, <<60, 62>>, <<60, 97, 62>>,
      <<60, 48, 48, 55, 62>>, <<60, 32, 49, 62>>, <<60, 49, 32, 62>> }
    \cup { Bracketed(LT, Text(Numeral(v)), GT) : v \in 0..MaxPriInput }

\* The numerals put between [ and ]: 0, 42, 042, the last offset that boot
\* time 1000 can take and the one after it, the largest Duration in seconds
\* and the one after it, i64::MAX and the one after it.
OffsetNumerals ==
    { <<0>>, <<4, 2>>, <<0, 4, 2>>,
      <<8,2,1,0,2,9,8,4,1,1,7,9,9>>, <<8,2,1,0,2,9,8,4,1,1,8,0,0>>,
      <<9,2,2,3,3,7,2,0,3,6,8,5,4,7,7,5>>, <<9,2,2,3,3,7,2,0,3,6,8,5,4,7,7,6>>,
      <<9,2,2,3,3,7,2,0,3,6,8,5,4,7,7,5,8,0,7>>,
      <<9,2,2,3,3,7,2,0,3,6,8,5,4,7,7,5,8,0,8>> }

\* "", "[", "[42", "[]", "[x]", "[-1]", "[ 7]" and the numerals in brackets
OffsetParts ==
    { <<>>, <<91>>, <<91, 52, 50>>, <<91, 93>>, <<91, 120, 93>>,
      <<91, 45, 49, 93>>, <<91, 32, 55, 93>> }
    \cup { Bracketed(LBRACKET, Text(n), RBRACKET) : n \in OffsetNumerals }

\* "", "hello world", " x ", "\ty", "<5>z", "[7]w", "7", NBSP "q"
RestParts ==
    { <<>>, <<104, 101, 108, 108, 111, 32, 119, 111, 114, 108, 100>>,
      <<32, 120, 32>>, <<9, 121>>, <<60, 53, 62, 122>>, <<91, 55, 93, 119>>,
      <<55>>, <<160, 113>> }

BootTimes == { <<1, 0, 0, 0>>, <<1, 7, 0, 0, 0, 0, 0, 0, 0, 0>> }

InitParse ==
    /\ \E p \in PriParts : \E o \in OffsetParts : \E r \in RestParts :
          line = p \o o \o r
    /\ boottime \in BootTimes
    /\ parsed = None
    /\ pc = "boot"
    /\ names = None
    /\ fds = <<>>
    /\ sources = <<>>
    /\ registered = {}
    /\ armed = {}
    /\ events = <<>>
    /\ queue = <<>>
    /\ klogbuf = <<>>
    /\ store = <<>>
    /\ err = ""
    /\ narrived = 0
    /\ ready = {}
    /\ drained = {}
    /\ readLog = <<>>
    /\ ingestLog = <<>>

\* The call parse_klog_line(line, &boottime).
ParseLine ==
    /\ parsed = None
    /\ parsed' = Some(parse_klog_line(line, boottime))
    /\ UNCHANGED << loopVars, boottime, line >>

NextParse == ParseLine

SpecParse == InitParse /\ [][NextParse]_vars

Next ==
    \/ Boot
    \/ Acquire
    \/ OpenKlog
    \/ Register
    \/ Wait
    \/ HandleSocket
    \/ HandleKlog
    \/ Arrive
    \/ KlogArrive
    \/ Discard

Spec == Init /\ [][Next]_vars

\* The ends of the process that the environment decides: a failure of the
\* startup, of the poller, of the store or of a read. (A buffer that is not
\* UTF-8, a line that makes the parser panic and a recv that would block
\* end it whatever the environment does next.)
EnvFailures == {"Startup", "Env", "Handle", "HandleMode", "Poller",
                "Persistence", "Read"}

\* The loop with every datagram left in its queue until the process reads
\* it. The process goes on whenever it can: wait() returns when an armed
\* source is readable, and a handler that was entered is run; whether a
\* call fails is left to the environment.
NextLive ==
    \/ Boot
    \/ Acquire
    \/ OpenKlog
    \/ Register
    \/ Wait
    \/ HandleSocket
    \/ HandleKlog
    \/ Arrive
    \/ KlogArrive

SpecLive ==
    /\ Init
    /\ [][NextLive]_vars
    /\ WF_vars(Wait /\ err' \notin EnvFailures)
    /\ WF_vars(HandleSocket /\ err' \notin EnvFailures)
    /\ WF_vars(HandleKlog /\ err' \notin EnvFailures)

---------------------------------------------------------------------------
(* Properties of the dispatch loop (Spec).                                 *)

AllKeys == { sources[i].key : i \in 1..Len(sources) }

Last(s) == s[Len(s)]

IsPrefix(a, b) == Len(a) <= Len(b) /\ SubSeq(b, 1, Len(a)) = a

\* This step read the handle behind some key.
ReadStep == Len(readLog') = Len(readLog) + 1

SockName(key) == sources[find(sources, key)].sockname

\* C1: whenever the loop is blocked in wait(), every source of the registry
\* is armed for a readable notification.
C1_ArmedAtWait == pc = "wait" => \A k \in AllKeys : k \in registered /\ k \in armed

C1_Witness ==
    /\ pc = "wait"
    /\ Cardinality(AllKeys) = 3
    /\ ready = AllKeys
    /\ armed = AllKeys

\* C2: every source whose key the last wait() returned has been read by the
\* time the loop is back in wait().
C2_ReadyAreRead == pc = "wait" => ready \subseteq drained

C2_Witness ==
    /\ pc = "wait"
    /\ Cardinality(ready) >= 2
    /\ \A k \in ready : \E i \in 1..Len(readLog) : readLog[i].key = k

\* C3: a read that reports "would block" never ends the process: the drain
\* cycle of the source ends, the source is armed again and the loop goes on
\* (or poller.modify itself fails).
C3_WouldBlockIsNormal ==
    [][ (ReadStep /\ Last(readLog').res = None)
        => /\ err' \in {"", "Poller"}
           /\ err' = "" => Last(readLog').key \in armed' ]_vars

\* C4: whatever bytes a read returns (one byte or more), no error comes of
\* their content and a message is ingested for them.
C4_EveryBufferIngested ==
    [][ (ReadStep /\ Last(readLog').res \notin {None, Some(<<>>)})
        => /\ err' \notin {"Utf8", "Panic"}
           /\ err' = "" => Len(ingestLog') > Len(ingestLog) ]_vars

\* The records of one read: the datagram's text, or the lines of the buffer.
RecordsOfText(e, text) ==
    IF ~text.ok THEN <<>>
    ELSE IF e.key = KlogKey THEN Lines(text.s)
    ELSE << text.s >>

RecordsOf(e) ==
    IF e.res = None THEN <<>> ELSE RecordsOfText(e, Utf8Decode(e.res[1]))

RECURSIVE RecordsRead(_, _)
RecordsRead(log, k) ==
    IF log = <<>> THEN <<>>
    ELSE (IF Head(log).key = k THEN RecordsOf(Head(log)) ELSE <<>>)
         \o RecordsRead(Tail(log), k)

RECURSIVE RecordsIngested(_, _)
RecordsIngested(log, k) ==
    IF log = <<>> THEN <<>>
    ELSE (IF Head(log).key = k THEN << Head(log).rec >> ELSE <<>>)
         \o RecordsIngested(Tail(log), k)

\* C5: row i of the store is the row of the i-th ingested record, and the
\* records ingested for one source are, in order, the records read from it.
C5_RowsInReadOrder ==
    /\ Len(store) = Len(ingestLog)
    /\ \A i \in 1..Len(store) :
          /\ store[i].socket = SockName(ingestLog[i].key)
          /\ store[i].msg = ingestLog[i].msg.msg
          /\ IF ingestLog[i].key = KlogKey
             THEN ingestLog[i].msg = parse_klog_line(ingestLog[i].rec, boottime)
             ELSE ingestLog[i].msg \in parse_message(ingestLog[i].rec)
    /\ \A k \in AllKeys :
          IsPrefix(RecordsIngested(ingestLog, k), RecordsRead(readLog, k))

C5_Witness ==
    /\ Len(store) >= 3
    /\ \E i, j \in 1..Len(store) :
          /\ i < j
          /\ ingestLog[i].key = KlogKey /\ ingestLog[j].key = KlogKey
          /\ store[i].msg # store[j].msg
    /\ \E i \in 1..Len(store) : ingestLog[i].key # KlogKey

\* The row has the fields of the message, the pid only when it is numeric.
RowMatches(row, e) ==
    /\ row.facility = e.msg.facility
    /\ row.severity = e.msg.severity
    /\ row.socket = SockName(e.key)
    /\ row.appname = e.msg.appname
    /\ row.time = e.msg.timestamp
    /\ row.msg = e.msg.msg
    /\ row.pid = IF e.msg.procid = None THEN None
                 ELSE IF e.msg.procid[1].tag = "PID" THEN << e.msg.procid[1].pid >>
                 ELSE None

\* C6: every successful ingest adds exactly one row, after the rows there
\* are, with the fields of its message; no row changes.
C6_OneRowPerIngest ==
    [][ /\ IsPrefix(store, store')
        /\ Len(store') = Len(ingestLog')
        /\ \A i \in (Len(store) + 1)..Len(store') :
              RowMatches(store'[i], ingestLog'[i]) ]_vars

C6_Witness ==
    /\ \E i \in 1..Len(store) :
          /\ ingestLog[i].msg.procid # None
          /\ ingestLog[i].msg.procid[1].tag = "Name"
          /\ store[i].pid = None
    /\ \E i \in 1..Len(store) : store[i].pid = << 7 >>

\* C7: a failed ingest ends the process in that step, without the source
\* being armed again; nothing is read, ingested or armed after it.
C7_PersistenceErrorEnds ==
    [][ err' = "Persistence"
        => /\ pc' = "done"
           /\ armed' = armed
           /\ events' = events
           /\ err = "Persistence"
                => UNCHANGED << store, readLog, ingestLog, queue, klogbuf >> ]_vars

C7_Witness ==
    /\ err = "Persistence"
    /\ pc = "done"
    /\ store # <<>>
    /\ events # <<>>
    /\ events[1] \notin armed

---------------------------------------------------------------------------
(* Properties of parse_klog_line (SpecParse). The grammar is stated here   *)
(* on the text itself, apart from the parser.                              *)

\* The place of the first c in s, 0 when there is none.
FirstAt(s, c) ==
    IF \E j \in 1..Len(s) : s[j] = c
    THEN CHOOSE j \in 1..Len(s) : s[j] = c /\ \A k \in 1..(j - 1) : s[k] # c
    ELSE 0

\* s starts with `open`, one or more digits and `close`.
StartsWithNumber(s, open, close) ==
    /\ s # <<>>
    /\ s[1] = open
    /\ FirstAt(s, close) >= 3
    /\ \A k \in 2..(FirstAt(s, close) - 1) : IsDigit(s[k])

\* The numeral it holds, and what follows it.
NumberOf(s, close) ==
    StripZeros([k \in 1..(FirstAt(s, close) - 2) |-> s[k + 1] - CH_0])

After(s, close) == SubSeq(s, FirstAt(s, close) + 1, Len(s))

MaxPri == MaxFacility * 8 + 7

\* s starts with <p> for a combined priority p in 0..191.
StartsWithPri(s) ==
    /\ StartsWithNumber(s, LT, GT)
    /\ Len(NumberOf(s, GT)) <= 3
    /\ SmallValue(NumberOf(s, GT)) <= MaxPri

PriOf(s) == SmallValue(NumberOf(s, GT))

\* m is t without the whitespace at its two ends.
IsTrimOf(m, t) ==
    \E i \in 0..Len(t) : \E j \in i..Len(t) :
       /\ m = SubSeq(t, i + 1, j)
       /\ \A k \in 1..i : IsWhitespace(t[k])
       /\ \A k \in (j + 1)..Len(t) : IsWhitespace(t[k])
       /\ m # <<>> => ~IsWhitespace(m[1]) /\ ~IsWhitespace(m[Len(m)])

Absent(m) == m.facility = None /\ m.severity = None /\ m.timestamp = None

\* C8: <p>[n]text with p in 0..191 and n a numeral gives facility p div 8,
\* severity p mod 8, the boot time plus n seconds, and the text trimmed.
C8_FullForm ==
    ( /\ parsed # None
      /\ StartsWithPri(line)
      /\ StartsWithNumber(After(line, GT), LBRACKET, RBRACKET) )
    => /\ ~parsed[1].panic
       /\ parsed[1].facility = << PriOf(line) \div 8 >>
       /\ parsed[1].severity = << PriOf(line) % 8 >>
       /\ parsed[1].timestamp =
             << BigAdd(boottime, NumberOf(After(line, GT), RBRACKET)) >>
       /\ IsTrimOf(parsed[1].msg, After(After(line, GT), RBRACKET))

\* The line starts with no <digits> and no [digits].
NoPrefix(s) ==
    /\ ~StartsWithNumber(s, LT, GT)
    /\ ~StartsWithNumber(s, LBRACKET, RBRACKET)

\* C9, message text untouched: a line without any prefix gives no facility,
\* no severity and no timestamp, and the whole line as the message text.
C9_WholeInput ==
    (parsed # None /\ NoPrefix(line))
    => /\ ~parsed[1].panic
       /\ Absent(parsed[1])
       /\ parsed[1].msg = line

\* C9, message text trimmed: a line without any prefix gives no facility,
\* no severity and no timestamp, and the line with the whitespace around it
\* trimmed as the message text (the whole line when it has none).
C9_TrimmedInput ==
    (parsed # None /\ NoPrefix(line))
    => /\ ~parsed[1].panic
       /\ Absent(parsed[1])
       /\ IsTrimOf(parsed[1].msg, line)

C9_Witness ==
    /\ parsed # None
    /\ NoPrefix(line)
    /\ line # <<>>
    /\ IsWhitespace(line[1])
    /\ parsed[1].msg # line
    /\ parsed[1].msg # <<>>

\* What follows the <pri> when there is a well-formed one, else the line.
AfterPri(s) == IF StartsWithPri(s) THEN After(s, GT) ELSE s

HasOffset(s) == StartsWithNumber(AfterPri(s), LBRACKET, RBRACKET)

AfterOffset(s) ==
    IF HasOffset(s) THEN After(AfterPri(s), RBRACKET) ELSE AfterPri(s)

\* C10: facility and severity are there iff the line starts with a
\* well-formed <pri>, the timestamp iff a well-formed [offset] comes next,
\* and then it is the boot time plus the offset; all the rest is the message.
C10_LeftToRight ==
    parsed # None
    => /\ ~parsed[1].panic
       /\ parsed[1].facility # None <=> StartsWithPri(line)
       /\ parsed[1].severity # None <=> StartsWithPri(line)
       /\ StartsWithPri(line)
            => /\ parsed[1].facility = << PriOf(line) \div 8 >>
               /\ parsed[1].severity = << PriOf(line) % 8 >>
       /\ parsed[1].timestamp # None <=> HasOffset(line)
       /\ HasOffset(line)
            => parsed[1].timestamp =
                  << BigAdd(boottime, NumberOf(AfterPri(line), RBRACKET)) >>
       /\ IsTrimOf(parsed[1].msg, AfterOffset(line))

\* C11: for a line that starts with <p>, p in 0..191, the <pri> parser
\* decodes a facility f in 0..23 and a severity s in 0..7 with f * 8 + s = p,
\* and these are the facility and severity of the message returned.
C11_PriRoundTrip ==
    (parsed # None /\ StartsWithPri(line))
    => /\ priParser(line).val[1] # None
       /\ priParser(line).val[2] # None
       /\ priParser(line).val[1][1] \in 0..MaxFacility
       /\ priParser(line).val[2][1] \in 0..7
       /\ priParser(line).val[1][1] * 8 + priParser(line).val[2][1] = PriOf(line)
       /\ ~parsed[1].panic
            => /\ parsed[1].facility = priParser(line).val[1]
               /\ parsed[1].severity = priParser(line).val[2]

C11_Witness ==
    /\ parsed # None
    /\ StartsWithPri(line)
    /\ PriOf(line) = MaxPri
    /\ ~parsed[1].panic
    /\ parsed[1].facility = << MaxFacility >>
    /\ parsed[1].severity = << 7 >>

---------------------------------------------------------------------------
(* Further properties of the dispatch loop (Spec).                         *)

\* C12: a source that was read to "would block" and armed again has nothing
\* left to read; a source with nothing to read gets something only by an
\* arrival; and wait() reports only armed sources that have something to
\* read. So a wake-up for another source never reports the drained one
\* before new data has arrived on it.
C12_NoStaleReadiness ==
    [][ /\ (pc = "wait" /\ pc' = "dispatch")
            => \A k \in ready' : k \in armed /\ Readable(k)
        /\ \A k \in AllKeys :
              /\ ( /\ ReadStep
                   /\ Last(readLog').key = k
                   /\ Last(readLog').res = None
                   /\ k \in armed' )
                 => ~Readable(k)'
              /\ (~Readable(k) /\ Readable(k)') => narrived' = narrived + 1 ]_vars

\* The klog source was read to "would block" and is armed; a wake-up has
\* just come for another source only.
C12_Witness ==
    /\ pc = "dispatch"
    /\ drained = {}
    /\ ready # {}
    /\ KlogKey \notin ready
    /\ KlogKey \in armed
    /\ ~Readable(KlogKey)
    /\ \E i \in 1..Len(readLog) :
          readLog[i].key = KlogKey /\ readLog[i].res = None

\* The handle slot of the i-th name cannot be acquired.
SlotFails(i) == i > Len(fds) \/ ~IsSocket(i)

\* C13: when a requested slot cannot be acquired or set non-blocking,
\* the process ends with that error and nothing is registered with the
\* poller or read; the registration and the loop run only with a source for
\* every requested slot, and the loop with every one of them registered.
C13_StartupFailsClean ==
    /\ err \in {"Handle", "HandleMode"}
         => /\ pc = "done"
            /\ registered = {} /\ armed = {}
            /\ readLog = <<>> /\ store = <<>>
    /\ (names # None /\ \E i \in 1..Len(names[1]) : SlotFails(i))
         => /\ pc \notin {"klogopen", "register", "wait", "dispatch"}
            /\ registered = {}
            /\ readLog = <<>>
    /\ pc \in {"register", "wait", "dispatch"}
         => /\ Len(sources) = Len(names[1]) + 1
            /\ \A i \in 1..Len(names[1]) : sources[i].key = i - 1
    /\ pc \in {"wait", "dispatch"} => registered = AllKeys

\* The first slot was acquired, the second was not, and a datagram was
\* waiting on the first.
C13_Witness ==
    /\ err = "Handle"
    /\ pc = "done"
    /\ Len(sources) = 1
    /\ queue[1] # <<>>
    /\ registered = {}

\* C14: no two sources have the same key: the i-th socket source has the
\* key i - 1 and the name of its slot, the klog source a key that is none of
\* these and the name "klog"; every event of wait() has the key of a source;
\* and every row added while an event is handled has the name of the source
\* with that event's key.
C14_KeyIdentifiesSource ==
    [][ /\ \A i, j \in 1..Len(sources') :
              sources'[i].key = sources'[j].key => i = j
        /\ \A i \in 1..Len(sources') :
              IF sources'[i].xport = "Klog"
              THEN /\ sources'[i].key = KlogKey
                   /\ KlogKey \notin 0..(Len(sources') - 1)
                   /\ sources'[i].sockname = "klog"
              ELSE /\ sources'[i].key = i - 1
                   /\ sources'[i].sockname = names[1][i]
        /\ \A e \in 1..Len(events') : find(sources', events'[e]) # 0
        /\ \A r \in (Len(store) + 1)..Len(store') :
              /\ events # <<>>
              /\ store'[r].socket = sources[find(sources, events[1])].sockname
      ]_vars

\* Two socket sources got one datagram each and were reported by one
\* wait(); the store has two rows, one with each source's name.
C14_Witness ==
    /\ pc = "wait"
    /\ Cardinality(ready) = 2
    /\ KlogKey \notin ready
    /\ Len(readLog) = 2
    /\ readLog[1].key # readLog[2].key
    /\ Len(store) = 2
    /\ store[1].socket = SockName(readLog[1].key)
    /\ store[2].socket = SockName(readLog[2].key)
    /\ store[1].socket # store[2].socket

---------------------------------------------------------------------------
(* Further properties of parse_klog_line (SpecParse).                      *)

\* C15: parse_klog_line returns a message for every line and every boot
\* time; it never panics.
C15_NeverPanics == parsed # None => ~parsed[1].panic

\* C16: a line that starts with <digits> whose number is no combined
\* priority (above 191) is parsed as a line without that prefix: no
\* facility, no severity, and the whole line, trimmed, as the message text.
C16_OutOfRangePri ==
    ( /\ parsed # None
      /\ StartsWithNumber(line, LT, GT)
      /\ ~StartsWithPri(line)
      /\ ~parsed[1].panic )
    => /\ parsed[1].facility = None
       /\ parsed[1].severity = None
       /\ IsTrimOf(parsed[1].msg, line)

---------------------------------------------------------------------------
(* The drain of the klog source (Spec).                                    *)

\* This step read the klog device and got a buffer.
KlogReadStep ==
    /\ ReadStep
    /\ Last(readLog').key = KlogKey
    /\ Last(readLog').res # None

\* The rows from the n-th on are the rows of the lines ls, in order.
RowsOfLines(st, n, ls) ==
    /\ Len(st) = n + Len(ls)
    /\ \A j \in 1..Len(ls) :
          /\ st[n + j].socket = "klog"
          /\ ~parse_klog_line(ls[j], boottime).panic
          /\ st[n + j].msg = parse_klog_line(ls[j], boottime).msg
          /\ st[n + j].facility = parse_klog_line(ls[j], boottime).facility
          /\ st[n + j].time = parse_klog_line(ls[j], boottime).timestamp

\* C17: the klog source is armed again only in the step of a read that
\* reports "would block"; a read that returns a buffer adds, unless the
\* store fails, one row for each line of the buffer, in the order of the
\* lines, and is followed by another read of the device.
C17_KlogDrain ==
    [][ /\ (pc = "dispatch" /\ KlogKey \notin armed /\ KlogKey \in armed')
            => /\ ReadStep
               /\ Last(readLog').key = KlogKey
               /\ Last(readLog').res = None
        /\ (KlogReadStep /\ err' # "Persistence")
            => /\ err' = ""
               /\ Utf8Decode(Last(readLog').res[1]).ok
               /\ RowsOfLines(store', Len(store),
                              Lines(Utf8Decode(Last(readLog').res[1]).s))
               /\ IsPrefix(store, store')
               /\ pc' = "dispatch" /\ events' = events
               /\ KlogKey \notin armed' ]_vars

\* How many entries of a history are for the key k.
RECURSIVE CountKey(_, _)
CountKey(log, k) ==
    IF log = <<>> THEN 0
    ELSE (IF Head(log).key = k THEN 1 ELSE 0) + CountKey(Tail(log), k)

\* C19: the store has one row for each ingested record; and unless the
\* process has ended on an error, so in particular whenever the loop is
\* blocked in wait(), each source has as many records ingested as were read
\* from it (one for a datagram, one for each line of a klog buffer).
C19_RowsAreRecordsRead ==
    /\ Len(store) = Len(ingestLog)
    /\ \A k \in AllKeys :
          IF pc # "done" /\ err = ""
          THEN CountKey(ingestLog, k) = Len(RecordsRead(readLog, k))
          ELSE CountKey(ingestLog, k) <= Len(RecordsRead(readLog, k))

\* Blocked in wait() after klog lines and a datagram were read and stored.
C19_Witness ==
    /\ pc = "wait"
    /\ CountKey(ingestLog, KlogKey) >= 2
    /\ \E k \in AllKeys : k # KlogKey /\ CountKey(ingestLog, k) >= 1
    /\ Len(store) = Len(ingestLog)
    /\ \A k \in AllKeys :
          CountKey(ingestLog, k) = Len(RecordsRead(readLog, k))

---------------------------------------------------------------------------
(* Progress of the loop (SpecLive).                                        *)

\* How many reads of the key k in a history returned a buffer.
RECURSIVE CountData(_, _)
CountData(log, k) ==
    IF log = <<>> THEN 0
    ELSE (IF Head(log).key = k /\ Head(log).res # None THEN 1 ELSE 0)
         + CountData(Tail(log), k)

SlotIndexes == UNION { DOMAIN e.fds : e \in Environments }

\* The loop runs and slot i has had m datagrams or more, read or queued.
Queued(i, m) ==
    /\ pc \in {"wait", "dispatch"}
    /\ i \in DOMAIN queue
    /\ CountData(readLog, i - 1) + Len(queue[i]) >= m

\* m records or more of slot i are in the store.
Persisted(i, m) ==
    /\ CountKey(ingestLog, i - 1) >= m
    /\ Len(store) = Len(ingestLog)

\* C18: the m-th datagram of a socket of the running loop is in the end
\* read and stored, unless the process ends on an error.
C18_DatagramsPersisted ==
    \A i \in SlotIndexes : \A m \in 1..MaxArrivals :
       Queued(i, m) ~> (pc = "done" \/ Persisted(i, m))

\* A socket is reported with two datagrams or more in its queue, after an
\* earlier one of its datagrams was stored.
C18_Witness ==
    /\ pc = "dispatch"
    /\ events[1] # KlogKey
    /\ Len(queue[events[1] + 1]) >= 2
    /\ CountKey(ingestLog, events[1]) >= 1
    /\ Len(store) = Len(ingestLog)

\* The event being handled is the one of the klog source.
KlogDraining == pc = "dispatch" /\ events[1] = KlogKey

\* C20: the drain of the klog source ends with the source armed again and
\* the loop running, and the loop comes back to wait(), unless the read, the
\* store or the poller fails.
C20_KlogDrainEnds ==
    /\ KlogDraining ~> \/ err \in EnvFailures
                       \/ pc # "done" /\ KlogKey \in armed /\ ~KlogDraining
    /\ KlogDraining ~> (err \in EnvFailures \/ pc = "wait")

====
